---- MODULE Spec2Model ----
(***************************************************************************)
(* Model of the job-application pipeline (cli.py, fetch_jobs.py,           *)
(* score_jobs.py, writer.py, convert_and_export.py, apply_assist.py).      *)
(*                                                                         *)
(* The persisted state is the SQLite store (tables jobs and applications)  *)
(* and the files on disk.  Every command of the dispatcher is one action;  *)
(* fetch_and_store, which loops over the job-board organisations, is a     *)
(* sequence of forced steps (one per organisation) under a program counter.*)
(* apply_to is a sequence of stages (lookup, navigation, uploads, text     *)
(* filling, review pause, close), each stage one action.                   *)
(*                                                                         *)
(* Spec runs the commands that write jobs; SpecDocs the document commands  *)
(* on a refreshed store; SpecScore scoring over every text of skill names; *)
(* SpecApply an apply over the forms with file inputs; SpecFill an apply   *)
(* over the forms with text inputs; SpecPick an apply under every setting  *)
(* of RESUME_FILE and COVER_FILE; SpecResolve the document commands with   *)
(* the Markdown files in either folder; SpecRefetch the commands that      *)
(* write jobs on a store that holds scored jobs and their documents.       *)
(***************************************************************************)
EXTENDS Integers, Sequences, FiniteSets, TLC

(***************************************************************************)
(* Bounds of the model.                                                    *)
(***************************************************************************)
\* longest job list one job-board response carries
MaxJobs == 2

(***************************************************************************)
(* Values.  A JSON value of a payload is a tagged record: a string (the    *)
(* set of words it holds; the empty set is the empty string, and JSON null *)
(* or a missing key behave like it in every expression of the program),    *)
(* a number, or the marker of a raised TypeError.                          *)
(***************************************************************************)
Str(ws) == [t |-> "str", v |-> ws]
Num == [t |-> "num", v |-> {}]
Err == [t |-> "err", v |-> {}]
Empty == Str({})

\* Python truthiness of a value
Truthy(x) == x.t = "num" \/ (x.t = "str" /\ x.v # {})
\* Python's  x or y
Or(x, y) == IF Truthy(x) THEN x ELSE y

(***************************************************************************)
(* score_jobs.py: the skills profile and the score.                        *)
(***************************************************************************)
Buckets == <<"languages", "ml", "tools", "years_exp">>

MY_SKILLS(b) ==
  CASE b = "languages" -> <<"python", "typescript", "go">>
    [] b = "ml"        -> <<"nlp", "transformers", "langchain", "retrieval", "llmops">>
    [] b = "tools"     -> <<"postgres", "docker", "kubernetes", "playwright", "aws", "gcp">>
    [] b = "years_exp" -> <<"python", "typescript">>

\* BUCKET_WEIGHTS, in tenths (1.0, 1.2, 0.9, 1.1)
BUCKET_WEIGHTS(b) ==
  CASE b = "languages" -> 10
    [] b = "ml"        -> 12
    [] b = "tools"     -> 9
    [] b = "years_exp" -> 11

FUZZY_THRESHOLD == 85

Skills == UNION {{MY_SKILLS(Buckets[i])[j] : j \in 1..Len(MY_SKILLS(Buckets[i]))} : i \in 1..Len(Buckets)}

\* Markup words, which TAG_RE removes
TagWords == {"<p>"}
\* The vocabulary of job texts: the skill names, and words that are none
Words == Skills \cup TagWords \cup {"transformer", "google", "engineer"}

\* fuzz.partial_ratio(skill, word), for the words of the vocabulary: 100 when
\* one is a substring of the other, and below the threshold otherwise
partial_ratio(skill, w) ==
  IF skill = w THEN 100
  ELSE IF skill = "transformers" /\ w = "transformer" THEN 100
  ELSE IF skill = "go" /\ w = "google" THEN 100
  ELSE 0

\* skill in text: substring test, over the words of the text
Contains(text, skill) ==
  \E w \in text : w = skill \/ (skill = "go" /\ w = "google")

exact_or_fuzzy_hit(skill, text) ==
  IF skill = "" THEN FALSE
  ELSE IF Contains(text, skill) THEN TRUE
  ELSE \E w \in text : partial_ratio(skill, w) >= FUZZY_THRESHOLD

\* round(100 * hits / total, 1) in tenths: the nearest integer to
\* 1000 * hits / total, a tie going to the even one
RoundTenths(hits, total) ==
  LET n == 1000 * hits
      q == n \div total
      r == n % total
  IN  IF 2 * r < total THEN q
      ELSE IF 2 * r > total THEN q + 1
      ELSE IF q % 2 = 0 THEN q ELSE q + 1

RECURSIVE SumHits(_, _, _)
SumHits(skills, weight, text) ==
  IF skills = <<>> THEN 0
  ELSE (IF exact_or_fuzzy_hit(Head(skills), text) THEN weight ELSE 0)
       + SumHits(Tail(skills), weight, text)

RECURSIVE weighted_hits(_, _)
weighted_hits(bs, text) ==
  IF bs = <<>> THEN 0
  ELSE SumHits(MY_SKILLS(Head(bs)), BUCKET_WEIGHTS(Head(bs)), text)
       + weighted_hits(Tail(bs), text)

\* weighted_total with the dict bucket (years_exp) left out of the total
RECURSIVE weighted_total_lists(_)
weighted_total_lists(bs) ==
  IF bs = <<>> THEN 0
  ELSE (IF Head(bs) = "years_exp" THEN 0
        ELSE Len(MY_SKILLS(Head(bs))) * BUCKET_WEIGHTS(Head(bs)))
       + weighted_total_lists(Tail(bs))

RECURSIVE weighted_total(_)
weighted_total(bs) ==
  IF bs = <<>> THEN 0
  ELSE Len(MY_SKILLS(Head(bs))) * BUCKET_WEIGHTS(Head(bs)) + weighted_total(Tail(bs))

\* skill_score(text), in tenths of a point; text is a set of words, already
\* lower-cased (normalize_text)
skill_score(text) ==
  IF weighted_total(Buckets) = 0 THEN 0
  ELSE RoundTenths(weighted_hits(Buckets, text), weighted_total(Buckets))

\* strip_html(s): "" for a falsy value, TypeError for a truthy non-string
strip_html(s) ==
  IF ~Truthy(s) THEN Empty
  ELSE IF s.t # "str" THEN Err
  ELSE Str(s.v \ TagWords)

\* a + " " + b on strings; TypeError when an operand is no string
Plus(a, b) ==
  IF a.t = "err" \/ b.t = "err" THEN Err
  ELSE IF a.t # "str" \/ b.t # "str" THEN Err
  ELSE Str(a.v \cup b.v)

\* f"{a} {b}": every value formats; a number adds no word of the vocabulary
Format(a, b) ==
  IF a.t = "err" \/ b.t = "err" THEN Err
  ELSE Str(a.v \cup b.v)

\* job_text_from_payload(payload, source): a payload is a record of the keys
\* the program reads (content, title, descriptionPlain, description, text)
job_text_from_payload(payload, source) ==
  IF source = "greenhouse"
  THEN Plus(strip_html(Or(payload.content, Empty)), Or(payload.title, Empty))
  ELSE IF source = "lever"
  THEN Format(strip_html(Or(Or(payload.descriptionPlain, payload.description), Empty)),
              Or(Or(payload.text, payload.title), Empty))
  ELSE strip_html(Str(UNION {payload[k].v : k \in DOMAIN payload}))


(***************************************************************************)
(* The store.  A table is a set of rows; SQL NULL is Null, a REAL value v  *)
(* is Some(v).  applied_at (the day a row was written) and the columns     *)
(* title, location and posted_at (each a function of the stored payload)   *)
(* carry no state of their own and are left out of the rows.               *)
(***************************************************************************)
Null == <<>>
Some(v) == <<v>>
NullUrl == "NULL"

\* the organisations asked of each board, and the posting tokens they list
GhOrgs == <<"stripe">>
LeverOrgs == <<"datadog">>
Tokens == {1}
Urls == {NullUrl, "u1"}

JobId(source, org, tok) == <<source, org, tok>>
JobIds ==
  {JobId("greenhouse", GhOrgs[i], t) : i \in 1..Len(GhOrgs), t \in Tokens}
  \cup {JobId("lever", LeverOrgs[i], t) : i \in 1..Len(LeverOrgs), t \in Tokens}

\* Payloads the boards serve.  PayA and PayB are well-formed postings whose
\* text differs by board; PayNum carries a number where the text is expected.
PayA ==
  [content |-> Str({"<p>", "python", "docker"}), title |-> Str({"engineer"}),
   descriptionPlain |-> Empty, description |-> Str({"<p>", "go", "aws"}),
   text |-> Str({"engineer"})]
PayB ==
  [content |-> Str({"transformer", "kubernetes"}), title |-> Empty,
   descriptionPlain |-> Str({"google"}), description |-> Str({"nlp"}),
   text |-> Empty]
PayNum ==
  [content |-> Num, title |-> Str({"engineer"}),
   descriptionPlain |-> Empty, description |-> Num, text |-> Empty]
Payloads == {PayA, PayB, PayNum}

\* What a board lists for one posting: ok = FALSE is an entry normalize_gh /
\* normalize_lever cannot read (no 'id' key, or not an object)
ApiJobs ==
  {[ok |-> TRUE, tok |-> t, url |-> u, payload |-> p] :
     t \in Tokens, u \in Urls, p \in Payloads}
  \cup {[ok |-> FALSE, tok |-> 0, url |-> NullUrl, payload |-> PayA]}

SeqsUpTo(S, n) == UNION {[1..k -> S] : k \in 0..n}

\* A board's answer to one request: a job list, or a failed request (network
\* error, bad status, a body that is no JSON of the expected shape)
Responses ==
  {[status |-> "ok", jobs |-> js] : js \in SeqsUpTo(ApiJobs, MaxJobs)}
  \cup {[status |-> "error", jobs |-> <<>>]}

\* ensure_db with CREATE TABLE preceded by DROP TABLE: the tables are made anew
ensure_db_recreate(db) ==
  [schema |-> [jobs |-> "cli", apps |-> TRUE], jobs |-> {}, apps |-> {}]

\* cli.py SCHEMA / ensure_db: CREATE TABLE IF NOT EXISTS for both tables.
\* db is the store: its schema and the rows of its two tables.
ensure_db(db) ==
  [db EXCEPT !.schema = [jobs |-> IF db.schema.jobs = "none" THEN "cli" ELSE db.schema.jobs,
                         apps |-> TRUE]]

\* fetch_jobs.py ensure_schema: a jobs table without UNIQUE(url), score, status
ensure_schema(sch) ==
  [sch EXCEPT !.jobs = IF sch.jobs = "none" THEN "fetch" ELSE sch.jobs]

\* score_jobs.py ensure_score_column: ALTER TABLE jobs ADD COLUMN score REAL
ensure_score_column(sch) ==
  [sch EXCEPT !.jobs = IF sch.jobs = "fetch" THEN "fetch_scored" ELSE sch.jobs]

\* writer.py ensure_tables: CREATE TABLE IF NOT EXISTS applications
ensure_tables(sch) == [sch EXCEPT !.apps = TRUE]

\* the constraints and defaults of the jobs table as it was created
UniqueUrl(sch) == sch.jobs = "cli"
DefaultScore(sch) == IF sch.jobs = "cli" THEN Some(0) ELSE Null
DefaultStatus(sch) == IF sch.jobs = "cli" THEN "new" ELSE "NULL"

normalize_gh(job, org) ==
  [id |-> JobId("greenhouse", org, job.tok), source |-> "greenhouse",
   company |-> org, url |-> job.url, raw |-> job.payload]

normalize_lever(job, org) ==
  [id |-> JobId("lever", org, job.tok), source |-> "lever",
   company |-> org, url |-> job.url, raw |-> job.payload]

\* the UNIQUE(url) constraint of the store: NULLs never collide
UrlTaken(tbl, sch, row) ==
  /\ UniqueUrl(sch)
  /\ row.url # NullUrl
  /\ \E r \in tbl : r.id # row.id /\ r.url = row.url

\* upsert as INSERT OR REPLACE: the row is made anew, with the defaults
upsert_replace(tbl, sch, row) ==
  IF UrlTaken(tbl, sch, row) THEN [raised |-> TRUE, tbl |-> tbl]
  ELSE [raised |-> FALSE,
        tbl |-> {r \in tbl : r.id # row.id}
                \cup {[id |-> row.id, source |-> row.source,
                       company |-> row.company, url |-> row.url,
                       raw |-> row.raw, score |-> DefaultScore(sch),
                       status |-> DefaultStatus(sch)]}]

\* upsert without its ON CONFLICT(id) clause, on a table without the key
upsert_insert_only(tbl, sch, row) ==
  IF UrlTaken(tbl, sch, row) THEN [raised |-> TRUE, tbl |-> tbl]
  ELSE [raised |-> FALSE,
        tbl |-> tbl \cup {[id |-> row.id, source |-> row.source,
                           company |-> row.company, url |-> row.url,
                           raw |-> row.raw, score |-> DefaultScore(sch),
                           status |-> DefaultStatus(sch)]}]

\* upsert(conn, row): INSERT ... ON CONFLICT(id) DO UPDATE SET source, company,
\* title, location, url, posted_at, raw_json.  raised = TRUE is the store's
\* IntegrityError, which leaves the table as it was.
upsert(tbl, sch, row) ==
  LET old == {r \in tbl : r.id = row.id}
  IN  IF UrlTaken(tbl, sch, row) THEN [raised |-> TRUE, tbl |-> tbl]
      ELSE IF old = {}
      THEN [raised |-> FALSE,
            tbl |-> tbl \cup {[id |-> row.id, source |-> row.source,
                               company |-> row.company, url |-> row.url,
                               raw |-> row.raw, score |-> DefaultScore(sch),
                               status |-> DefaultStatus(sch)]}]
      ELSE [raised |-> FALSE,
            tbl |-> (tbl \ old) \cup
                    {[r EXCEPT !.source = row.source, !.company = row.company,
                               !.url = row.url, !.raw = row.raw] : r \in old}]

\* the loop  for j in jobs: upsert(conn, normalize(j, org)) : it stops at the
\* first exception and keeps what it stored before
RECURSIVE UpsertEach(_, _, _, _, _)
UpsertEach(tbl, sch, board, org, js) ==
  IF js = <<>> THEN [raised |-> FALSE, tbl |-> tbl]
  ELSE IF ~Head(js).ok THEN [raised |-> TRUE, tbl |-> tbl]
  ELSE LET row == IF board = "greenhouse" THEN normalize_gh(Head(js), org)
                  ELSE normalize_lever(Head(js), org)
           r == upsert(tbl, sch, row)
       IN  IF r.raised THEN r ELSE UpsertEach(r.tbl, sch, board, org, Tail(js))

\* one request and the upserts of its answer, inside the try block
TryBoard(tbl, sch, board, org, resp) ==
  IF resp.status = "error" THEN [raised |-> TRUE, tbl |-> tbl]
  ELSE UpsertEach(tbl, sch, board, org, resp.jobs)

\* fetch_greenhouse without its try/except: the exception leaves it
fetch_greenhouse_unguarded(tbl, sch, org, resp) ==
  [raised |-> TryBoard(tbl, sch, "greenhouse", org, resp).raised,
   tbl |-> TryBoard(tbl, sch, "greenhouse", org, resp).tbl,
   logged |-> FALSE]

\* fetch_greenhouse: any exception is printed (logged) and swallowed
fetch_greenhouse(tbl, sch, org, resp) ==
  [raised |-> FALSE,
   tbl |-> TryBoard(tbl, sch, "greenhouse", org, resp).tbl,
   logged |-> TryBoard(tbl, sch, "greenhouse", org, resp).raised]

\* fetch_lever, one pass of its loop over the endpoints (US, then EU): the
\* request and the upserts of its answer; raised = TRUE sends it to the next
\* endpoint, and after the last one the error is printed and swallowed
fetch_lever(tbl, sch, org, resp) ==
  TryBoard(tbl, sch, "lever", org, resp)

\* score_all that adds each new score to the one stored
score_all_accumulate(tbl) ==
  {[r EXCEPT !.score = Some(skill_score(job_text_from_payload(r.raw, r.source).v)
                            + (IF r.score = <<>> THEN 0 ELSE r.score[1]))] : r \in tbl}

\* score_all that scores only the rows not scored before
score_all_unscored_only(tbl) ==
  {IF r.score \in {<<>>, <<0>>}
   THEN [r EXCEPT !.score = <<skill_score(job_text_from_payload(r.raw, r.source).v)>>]
   ELSE r : r \in tbl}

\* score_all: every row's score is recomputed from its payload and source; a
\* TypeError in job_text_from_payload leaves the loop before the commit, so
\* no score is changed
ScoreOf(r) == skill_score(job_text_from_payload(r.raw, r.source).v)
ScoreRaises(tbl) == \E r \in tbl : job_text_from_payload(r.raw, r.source).t = "err"
score_all(tbl) ==
  IF ScoreRaises(tbl) THEN tbl
  ELSE {[r EXCEPT !.score = Some(ScoreOf(r))] : r \in tbl}


(***************************************************************************)
(* Documents.  A path stored in applications names a file by job, kind     *)
(* (resume, cover) and suffix, and is relative (as writer.py stores it) or *)
(* absolute (as convert_and_export.py stores it); both name the same file  *)
(* of its folder, a folder of the working directory.                       *)
(***************************************************************************)
Kinds == {"resume", "cover"}
\* writer.py OUTDIR
OUTDIR == "docs"
\* the folders the options --outdir and --docs-dir name
Dirs == {"docs", "out"}
NoPath == [id |-> <<>>, kind |-> "none", ext |-> "", abs |-> FALSE, dir |-> ""]
DocPath(id, kind, ext, abs) ==
  [id |-> id, kind |-> kind, ext |-> ext, abs |-> abs, dir |-> OUTDIR]
FileOf(p) == [id |-> p.id, kind |-> p.kind, ext |-> p.ext, dir |-> p.dir]
Exists(fs, p) == p # NoPath /\ FileOf(p) \in fs

\* to_abs(p)
to_abs(p) == [p EXCEPT !.abs = TRUE]

\* writer.py get_job: the row, or ValueError (found = FALSE)
get_job(tbl, id) ==
  IF \E r \in tbl : r.id = id
  THEN [found |-> TRUE, row |-> CHOOSE r \in tbl : r.id = id]
  ELSE [found |-> FALSE, row |-> [id |-> id]]

\* writer.py extract_description
extract_description(payload, source) ==
  IF source = "greenhouse"
  THEN Plus(strip_html(payload.content), Or(payload.title, Empty))
  ELSE IF source = "lever"
  THEN Format(strip_html(Or(Or(payload.descriptionPlain, payload.description), Empty)),
              Or(Or(payload.text, payload.title), Empty))
  ELSE strip_html(Str(UNION {payload[k].v : k \in DOMAIN payload}))

\* writer.py write_files: both Markdown files, under OUTDIR
write_files(fs, id) ==
  [files |-> fs \cup {FileOf(DocPath(id, "cover", "md", FALSE)),
                      FileOf(DocPath(id, "resume", "md", FALSE))},
   resume |-> DocPath(id, "resume", "md", FALSE),
   cover |-> DocPath(id, "cover", "md", FALSE)]

\* a plain INSERT into a table without the key
InsertPlain(tbl, row) == tbl \cup {row}

\* INSERT OR REPLACE INTO applications: the row of the job is replaced
InsertOrReplace(tbl, row) == {r \in tbl : r.job_id # row.job_id} \cup {row}

\* writer.py generate_for.  llm is the outcome of the completion calls.
\* res names what the call raised ("ok": it returned).
generate_for(tbl, ap, fs, id, llm) ==
  LET job == get_job(tbl, id)
      same == [res |-> "ok", apps |-> ap, files |-> fs]
  IN  IF ~job.found THEN [same EXCEPT !.res = "JobNotFound"]
      ELSE IF extract_description(job.row.raw, job.row.source).t = "err"
      THEN [same EXCEPT !.res = "TypeError"]
      ELSE IF llm # "ok" THEN [same EXCEPT !.res = "LLMError"]
      ELSE LET w == write_files(fs, id)
           IN  [res |-> "ok",
                apps |-> InsertOrReplace(ap, [job_id |-> id, resume_path |-> w.resume,
                                              cover_path |-> w.cover, notes |-> "generated"]),
                files |-> w.files]

\* cli.py generate.  key is whether OPENAI_API_KEY is set.  generate_for has
\* no parameter outdir: the first call raises TypeError before its body runs,
\* and the call in the except clause, without outdir, is the one that runs.
generate(tbl, ap, fs, id, outdir, key, llm) ==
  IF ~key THEN [res |-> "Exit1", apps |-> ap, files |-> fs]
  ELSE LET with_outdir == [res |-> "TypeError", apps |-> ap, files |-> fs]
       IN  IF with_outdir.res = "TypeError" THEN generate_for(tbl, ap, fs, id, llm)
           ELSE with_outdir

\* cli.py _default_md_paths
_default_md_paths(id, docs_dir) ==
  <<[DocPath(id, "resume", "md", FALSE) EXCEPT !.dir = docs_dir],
    [DocPath(id, "cover", "md", FALSE) EXCEPT !.dir = docs_dir]>>

\* cli.py _get_md_paths_from_db
_get_md_paths_from_db(ap, id) ==
  IF \E r \in ap : r.job_id = id
  THEN LET r == CHOOSE r \in ap : r.job_id = id IN <<r.resume_path, r.cover_path>>
  ELSE <<NoPath, NoPath>>

IsMd(fs, p) == p # NoPath /\ Exists(fs, p) /\ p.ext = "md"

\* cli.py _resolve_md_paths: the cover path is replaced by its default only
\* inside the branch taken when the resume path is unusable
_resolve_md_paths(ap, fs, id, docs_dir) ==
  LET db == _get_md_paths_from_db(ap, id)
      def == _default_md_paths(id, docs_dir)
      res == IF ~IsMd(fs, db[1]) THEN def[1] ELSE db[1]
      cov == IF ~IsMd(fs, db[1])
             THEN (IF IsMd(fs, db[2]) THEN db[2] ELSE def[2])
             ELSE db[2]
  IN  [res |-> IF ~Exists(fs, res) THEN "FileNotFound"
               ELSE IF cov = NoPath THEN "AttributeError"
               ELSE IF ~Exists(fs, cov) THEN "FileNotFound"
               ELSE "ok",
       resume |-> res, cover |-> cov]

\* what the preferred renderer does: "ok" (wkhtmltopdf wrote the PDF), "none"
\* (pdfkit or wkhtmltopdf missing: it returns False), "raises"
PrettyOutcomes == {"ok", "none", "raises"}

\* convert_and_export.py md_to_pdf_pretty
md_to_pdf_pretty(fs, md, pretty) ==
  [ok |-> pretty = "ok", raised |-> pretty = "raises",
   files |-> IF pretty = "ok" THEN fs \cup {FileOf([md EXCEPT !.ext = "pdf"])} ELSE fs]

\* convert_and_export.py md_to_pdf_simple: reportlab writes the text's lines
md_to_pdf_simple(fs, md) == fs \cup {FileOf([md EXCEPT !.ext = "pdf"])}

\* ensure_pdf_from_md that stops after the preferred renderer
ensure_pdf_from_md_pretty_only(fs, md, pretty) ==
  IF ~Exists(fs, md) THEN [res |-> "FileNotFound", files |-> fs, pdf |-> NoPath]
  ELSE IF ~Exists(md_to_pdf_pretty(fs, md, pretty).files, [md EXCEPT !.ext = "pdf"])
  THEN [res |-> "RuntimeError", files |-> fs, pdf |-> NoPath]
  ELSE [res |-> "ok", files |-> md_to_pdf_pretty(fs, md, pretty).files,
        pdf |-> to_abs([md EXCEPT !.ext = "pdf"])]

\* convert_and_export.py ensure_pdf_from_md: FileNotFoundError without the
\* source; else the preferred renderer, the simple one when that returned
\* False or raised; the PDF lies beside the source and its absolute path is
\* returned
ensure_pdf_from_md(fs, md, pretty) ==
  IF ~Exists(fs, md) THEN [res |-> "FileNotFound", files |-> fs, pdf |-> NoPath]
  ELSE LET p == md_to_pdf_pretty(fs, md, pretty)
           f == IF p.ok /\ ~p.raised THEN p.files ELSE md_to_pdf_simple(p.files, md)
       IN  IF ~Exists(f, [md EXCEPT !.ext = "pdf"])
           THEN [res |-> "RuntimeError", files |-> f, pdf |-> NoPath]
           ELSE [res |-> "ok", files |-> f, pdf |-> to_abs([md EXCEPT !.ext = "pdf"])]

\* update_db as INSERT OR IGNORE: a row already there is kept as it is
update_db_keep_existing(ap, id, resume_pdf, cover_pdf) ==
  IF \E r \in ap : r.job_id = id
  THEN ap
  ELSE InsertOrReplace(ap, [job_id |-> id, resume_path |-> resume_pdf,
                           cover_path |-> cover_pdf, notes |-> "converted"])

\* convert_and_export.py update_db: INSERT OR REPLACE keeping the row's notes
update_db(ap, id, resume_pdf, cover_pdf) ==
  LET old == {r \in ap : r.job_id = id}
      notes == IF old = {} THEN "converted" ELSE (CHOOSE r \in old : TRUE).notes
  IN  InsertOrReplace(ap, [job_id |-> id, resume_path |-> resume_pdf,
                           cover_path |-> cover_pdf, notes |-> notes])


(***************************************************************************)
(* apply_assist.py.  The form is a list of file inputs and a list of text  *)
(* inputs.  A file input is described by the known selectors that select   *)
(* it (sels), by the documents whose name/id pattern its name or id        *)
(* matches (pick), and by the documents it was given (got); inputs that a  *)
(* reveal button adds to the form wait in hidden.  A text input is         *)
(* described by the profile keys whose label pattern its label matches,    *)
(* the fallback selectors that select it, the final-pass cues its          *)
(* placeholder/name/aria-label matches, whether the final pass's locator   *)
(* selects it (textual), and its value.                                    *)
(*                                                                         *)
(* Every call on the page is numbered in the order it is made; the set F   *)
(* names the calls that raise (timeout, detached element, closed target).  *)
(* Each attempt is appended to a log, a history of the run.                *)
(***************************************************************************)
\* most calls on the page that raise during one apply
MaxFaults == 1
\* most calls on the page one function makes
MaxOps == 52
\* most file inputs of a form
MaxFileInputs == 2
\* most text inputs of a form
MaxTexts == 2

ALLOWED_UPLOAD_EXTS == {"pdf", "doc", "docx", "rtf"}

FILE_SELECTORS(kind) ==
  IF kind = "resume"
  THEN <<"input[type='file'][name*='resume']", "input[type='file'][name*='cv']",
         "input#resume", "input#resume-upload-input",
         "input[name='application[resume]']",
         "[data-qa='resume-uploader'] input[type='file']">>
  ELSE <<"input[type='file'][name*='cover']", "input[name='application[cover_letter]']",
         "input#cover", "[data-qa='coverLetter-uploader'] input[type='file']">>

BUTTON_CUES == <<"attach", "upload", "resume", "choose file", "browse">>

ProfileKeys ==
  <<"first", "last", "email", "phone", "linkedin", "website",
    "city", "employer", "job_title", "school", "degree">>

PROFILE(k) ==
  CASE k = "first" -> "Jordan"
    [] k = "last" -> "Miller"
    [] k = "email" -> "jordan.miller@example.com"
    [] k = "phone" -> "+41 79 555 12 34"
    [] k = "linkedin" -> "https://www.linkedin.com/in/jordanmiller123"
    [] k = "website" -> "https://jordanmiller.dev"
    [] k = "city" -> "Zurich, Switzerland"
    [] k = "employer" -> "Acme Analytics AG"
    [] k = "job_title" -> "Data Analyst"
    [] k = "school" -> "University of Zurich"
    [] k = "degree" -> "B.Sc. Computer Science"
    [] OTHER -> ""

\* LABEL_PATTERNS: one regular expression per key, named here by its key
LABEL_PATTERNS(k) == <<k>>

CSS_FALLBACKS(k) ==
  CASE k = "first" -> <<"input[name*='firstName']", "input[name*='first_name']">>
    [] k = "last" -> <<"input[name*='lastName']", "input[name*='last_name']">>
    [] k = "email" -> <<"input[type='email']", "input[name*='email']">>
    [] k = "phone" -> <<"input[type='tel']", "input[name*='phone']">>
    [] k = "linkedin" -> <<"input[name*='linkedin']", "input[placeholder*='LinkedIn' i]">>
    [] k = "website" -> <<"input[name*='website']", "input[name*='portfolio']">>
    [] k = "city" -> <<"input[name*='city']", "input[name*='location']",
                       "input[placeholder*='location' i]">>
    [] k = "employer" -> <<"input[name*='employer']", "input[name*='company']">>
    [] k = "job_title" -> <<"input[name*='title']">>
    [] k = "school" -> <<"input[name*='school']", "input[name*='university']",
                         "input[name*='college']">>
    [] k = "degree" -> <<"input[name*='degree']">>
    [] OTHER -> <<>>

\* the cues of the final pass, in the order of the dict, named by the profile
\* key whose value they write
Cues == <<"city", "employer", "job_title", "school", "degree", "linkedin", "website">>

\* file inputs as forms carry them
FileInput(sels, pick) == [sels |-> sels, pick |-> pick, got |-> <<>>]
\* <input type=file id="Resume-Upload">: the pattern ignores case, no selector does
KNamedResume == FileInput({}, {"resume"})
FileKinds ==
  {\* <input type=file name="resume" id="resume">
   FileInput({"input[type='file'][name*='resume']", "input#resume"}, {"resume"}),
   \* <input type=file name="cover_letter">
   FileInput({"input[type='file'][name*='cover']"}, {"cover"}),
   KNamedResume,
   \* <input type=file id="CoverLetter">
   FileInput({}, {"cover"}),
   \* <input type=file name="resume_or_cover_letter">
   FileInput({"input[type='file'][name*='resume']", "input[type='file'][name*='cover']"},
             {"resume", "cover"}),
   \* <input type=file name="attachment">
   FileInput({}, {})}

\* text inputs as forms carry them
TextInput(label, css, cues, textual, value) ==
  [label |-> label, css |-> css, cues |-> cues, textual |-> textual, value |-> value]
\* <label>First name <input type=text name="first_name"></label>
TxFirst == TextInput({"first"}, {"input[name*='first_name']"}, {}, TRUE, "")
TextKinds ==
  {TxFirst,
   \* <input type=email name="email">, no label
   TextInput({}, {"input[type='email']", "input[name*='email']"}, {}, FALSE, ""),
   \* <label>City <input></label>
   TextInput({"city"}, {}, {}, TRUE, ""),
   \* <input type=text name="company_title">, no label
   TextInput({}, {"input[name*='company']", "input[name*='title']"},
             {"employer", "job_title"}, TRUE, ""),
   \* <input placeholder="University">, no label
   TextInput({}, {}, {"school"}, TRUE, ""),
   \* <input type=text placeholder="LinkedIn URL" value="old">, no label
   TextInput({}, {"input[placeholder*='LinkedIn' i]"}, {"linkedin"}, TRUE, "old")}

\* the page: its file inputs, those a reveal button adds (its text matching
\* the cues in button), its text inputs
BlankDom == [inputs |-> <<>>, hidden |-> <<>>, button |-> {}, texts |-> <<>>]

\* a run of calls on the page: the page, the number of calls made, the log,
\* and whether a call's exception has left the function
Started(dom, log) ==
  [inputs |-> dom.inputs, hidden |-> dom.hidden, button |-> dom.button,
   texts |-> dom.texts, n |-> 0, log |-> log, raised |-> FALSE]
DomOf(st) ==
  [inputs |-> st.inputs, hidden |-> st.hidden, button |-> st.button, texts |-> st.texts]
Event(strat, what, sel, at, ok) ==
  [strat |-> strat, what |-> what, sel |-> sel, at |-> at, ok |-> ok]
Tick(st) == [st EXCEPT !.n = @ + 1]
Fails(st, F) == (st.n + 1) \in F
Logged(st, e) == [st EXCEPT !.log = Append(@, e)]
First(S) == IF S = {} THEN 0 ELSE CHOOSE i \in S : \A j \in S : i <= j

\* the sets of failing calls a run may meet
RECURSIVE FaultSets(_)
FaultSets(k) ==
  IF k = 0 THEN {{}}
  ELSE LET S == FaultSets(k - 1) IN S \cup {f \cup {i} : f \in S, i \in 1..MaxOps}

\* ok(path) without the test of the extension
UploadOkAnyExt(fs, p) == p # NoPath /\ Exists(fs, p)
\* _pick_valid_upload
UploadOk(fs, p) == p # NoPath /\ Exists(fs, p) /\ p.ext \in ALLOWED_UPLOAD_EXTS
_pick_valid_upload(fs, db_path, envp) ==
  IF UploadOk(fs, db_path) THEN to_abs(db_path)
  ELSE IF UploadOk(fs, envp) THEN to_abs(envp)
  ELSE NoPath

\* loc.set_input_files(path) on the i-th file input, inside try/except
set_input_files(st, F, i, doc, strat, sel) ==
  IF Fails(st, F)
  THEN [st |-> Logged(Tick(st), Event(strat, doc, sel, i, FALSE)), ok |-> FALSE]
  ELSE [st |-> Logged([Tick(st) EXCEPT !.inputs[i].got = Append(@, doc)],
                      Event(strat, doc, sel, i, TRUE)),
        ok |-> TRUE]

\* _try_upload_known: the loop over the selectors (loc.count(), then
\* set_input_files on the first element selected)
RECURSIVE KnownFrom(_, _, _, _)
KnownFrom(st, F, kind, sels) ==
  IF sels = <<>> THEN [st |-> st, ok |-> FALSE]
  ELSE LET sel == Head(sels)
           i == First({j \in 1..Len(st.inputs) : sel \in st.inputs[j].sels})
       IN  IF Fails(st, F) \/ i = 0
           THEN KnownFrom(Logged(Tick(st), Event("known", kind, sel, 0, FALSE)),
                          F, kind, Tail(sels))
           ELSE LET u == set_input_files(Tick(st), F, i, kind, "known", sel)
                IN  IF u.ok THEN u ELSE KnownFrom(u.st, F, kind, Tail(sels))
_try_upload_known(st, F, kind, path) ==
  IF path = NoPath THEN [st |-> st, ok |-> FALSE]
  ELSE KnownFrom(st, F, kind, FILE_SELECTORS(kind))

\* _click_possible_attach_buttons: per cue a click by role and a click by
\* text; a click that lands on the reveal button adds the hidden inputs
Click(st, F, cue) ==
  IF Fails(st, F) \/ cue \notin st.button THEN Tick(st)
  ELSE [Tick(st) EXCEPT !.inputs = @ \o st.hidden, !.hidden = <<>>]
RECURSIVE ClickFrom(_, _, _)
ClickFrom(st, F, cues) ==
  IF cues = <<>> \/ st.raised THEN st
  ELSE ClickFrom(Click(Click(st, F, Head(cues)), F, Head(cues)), F, Tail(cues))
_click_possible_attach_buttons(st, F) ==
  Logged(ClickFrom(st, F, BUTTON_CUES), Event("click", "", "", 0, TRUE))

\* _scan_file_inputs: loc.count() and three get_attribute per input, none of
\* them inside a try
_scan_file_inputs(st, F) ==
  LET ops == 1 + 3 * Len(st.inputs)
      s == [st EXCEPT !.n = @ + ops]
  IN  IF \E k \in (st.n + 1)..(st.n + ops) : k \in F
      THEN [st |-> Logged([s EXCEPT !.raised = TRUE], Event("scan", "", "", 0, FALSE)),
            inputs |-> <<>>]
      ELSE [st |-> Logged(s, Event("scan", "", "", Len(st.inputs), TRUE)),
            inputs |-> [i \in 1..Len(st.inputs) |-> i]]

\* pick(kind_regex) of _upload_best_effort: the first scanned input whose
\* name or id matches
pick(st, inputs, kind) ==
  First({j \in 1..Len(inputs) : kind \in st.inputs[inputs[j]].pick})

\* a document that only gets its path as guard
NotYetUploadedAnyway(path, uploaded) == path # NoPath

\* the guard of each later strategy: resume_path and not uploaded_resume
NotYetUploaded(path, uploaded) == path # NoPath /\ ~uploaded

\* _upload_best_effort, the name/id strategy for one document
UploadNamed(st, F, inputs, kind, path, uploaded) ==
  IF ~NotYetUploaded(path, uploaded) \/ pick(st, inputs, kind) = 0
  THEN [st |-> st, ok |-> uploaded]
  ELSE set_input_files(st, F, inputs[pick(st, inputs, kind)], kind, "named", "")

\* _upload_best_effort, the positional fallback for one document
UploadPositional(st, F, inputs, kind, pos, path, uploaded) ==
  IF ~NotYetUploaded(path, uploaded) \/ Len(inputs) < pos
  THEN [st |-> st, ok |-> uploaded]
  ELSE set_input_files(st, F, inputs[pos], kind, "positional", "")

\* _upload_best_effort
_upload_best_effort(st, F, resume_path, cover_path) ==
  LET k1 == _try_upload_known(st, F, "resume", resume_path)
      k2 == _try_upload_known(k1.st, F, "cover", cover_path)
      c  == IF NotYetUploaded(resume_path, k1.ok) \/ NotYetUploaded(cover_path, k2.ok)
            THEN _click_possible_attach_buttons(k2.st, F)
            ELSE k2.st
      sc == _scan_file_inputs(c, F)
      n1 == UploadNamed(sc.st, F, sc.inputs, "resume", resume_path, k1.ok)
      n2 == UploadNamed(n1.st, F, sc.inputs, "cover", cover_path, k2.ok)
      p1 == UploadPositional(n2.st, F, sc.inputs, "resume", 1, resume_path, n1.ok)
      p2 == UploadPositional(p1.st, F, sc.inputs, "cover", 2, cover_path, n2.ok)
  IN  IF sc.st.raised THEN [st |-> sc.st, resume |-> k1.ok, cover |-> k2.ok]
      ELSE [st |-> p2.st, resume |-> p1.ok, cover |-> p2.ok]

\* el.fill(value) on the i-th text input, inside try/except
fill(st, F, i, key, strat, sel) ==
  IF Fails(st, F)
  THEN [st |-> Logged(Tick(st), Event(strat, key, sel, i, FALSE)), ok |-> FALSE]
  ELSE [st |-> Logged([Tick(st) EXCEPT !.texts[i].value = PROFILE(key)],
                      Event(strat, key, sel, i, TRUE)),
        ok |-> TRUE]

\* _try_fill_by_label: get_by_label(pat).first.fill(value) per pattern; with
\* no labelled element the fill times out
RECURSIVE LabelFrom(_, _, _, _)
LabelFrom(st, F, key, pats) ==
  IF pats = <<>> THEN [st |-> st, ok |-> FALSE]
  ELSE LET i == First({j \in 1..Len(st.texts) : Head(pats) \in st.texts[j].label})
           u == IF i = 0
                THEN [st |-> Logged(Tick(st), Event("label", key, Head(pats), 0, FALSE)),
                      ok |-> FALSE]
                ELSE fill(st, F, i, key, "label", Head(pats))
       IN  IF u.ok THEN u ELSE LabelFrom(u.st, F, key, Tail(pats))
_try_fill_by_label(st, F, key) == LabelFrom(st, F, key, LABEL_PATTERNS(key))

\* _try_fill_by_css: per selector loc.count(), then fill on the first element
RECURSIVE CssFrom(_, _, _, _)
CssFrom(st, F, key, sels) ==
  IF sels = <<>> THEN [st |-> st, ok |-> FALSE]
  ELSE LET sel == Head(sels)
           i == First({j \in 1..Len(st.texts) : sel \in st.texts[j].css})
       IN  IF Fails(st, F) \/ i = 0
           THEN CssFrom(Logged(Tick(st), Event("css", key, sel, 0, FALSE)),
                        F, key, Tail(sels))
           ELSE LET u == fill(Tick(st), F, i, key, "css", sel)
                IN  IF u.ok THEN u ELSE CssFrom(u.st, F, key, Tail(sels))
_try_fill_by_css(st, F, key) == CssFrom(st, F, key, CSS_FALLBACKS(key))

\* _fill_field that goes on to the CSS fallbacks whatever the labels did
_fill_field_both(st, F, key) ==
  IF PROFILE(key) = "" THEN [st |-> st, ok |-> FALSE]
  ELSE _try_fill_by_css(_try_fill_by_label(st, F, key).st, F, key)

\* _fill_field
_fill_field(st, F, key) ==
  IF PROFILE(key) = "" THEN [st |-> st, ok |-> FALSE]
  ELSE LET l == _try_fill_by_label(st, F, key)
       IN  IF l.ok THEN l
           ELSE IF CSS_FALLBACKS(key) # <<>> THEN _try_fill_by_css(l.st, F, key)
           ELSE [st |-> l.st, ok |-> FALSE]

\* _fill_all_textish, the loops over the keys: one _fill_field after the other
RECURSIVE FillFields(_, _, _)
FillFields(st, F, keys) ==
  IF keys = <<>> \/ st.raised THEN st
  ELSE FillFields(_fill_field(st, F, Head(keys)).st, F, Tail(keys))

\* the final pass on one input: input_value(), three get_attribute, then fill
\* with the value of the first cue that matches; any exception ends the
\* work on this input
FirstCue(x) == First({c \in 1..Len(Cues) : Cues[c] \in x.cues})
\* the final pass on one input without the test of its current value
FinalOneAnyValue(st, F, i) ==
  IF Fails(st, F) THEN Tick(st)
  ELSE IF \E k \in (st.n + 2)..(st.n + 4) : k \in F
       THEN [st EXCEPT !.n = CHOOSE k \in (st.n + 2)..(st.n + 4) :
                                k \in F /\ \A j \in (st.n + 2)..(k - 1) : j \notin F]
  ELSE IF FirstCue(st.texts[i]) = 0 THEN [st EXCEPT !.n = @ + 4]
  ELSE fill([st EXCEPT !.n = @ + 4], F, i, Cues[FirstCue(st.texts[i])], "final", "").st
FinalOne(st, F, i) ==
  IF Fails(st, F) THEN Tick(st)
  ELSE IF st.texts[i].value # "" THEN Tick(st)
  ELSE IF \E k \in (st.n + 2)..(st.n + 4) : k \in F
       THEN [st EXCEPT !.n = CHOOSE k \in (st.n + 2)..(st.n + 4) :
                                k \in F /\ \A j \in (st.n + 2)..(k - 1) : j \notin F]
  ELSE IF FirstCue(st.texts[i]) = 0 THEN [st EXCEPT !.n = @ + 4]
  ELSE fill([st EXCEPT !.n = @ + 4], F, i, Cues[FirstCue(st.texts[i])], "final", "").st
RECURSIVE FinalFrom(_, _, _)
FinalFrom(st, F, todo) ==
  IF todo = <<>> \/ st.raised THEN st
  ELSE FinalFrom(FinalOne(st, F, Head(todo)), F, Tail(todo))

\* the text inputs the final pass's locator selects, in document order
RECURSIVE Textual(_, _)
Textual(texts, i) ==
  IF i > Len(texts) THEN <<>>
  ELSE (IF texts[i].textual THEN <<i>> ELSE <<>>) \o Textual(texts, i + 1)

\* _fill_all_textish: the eleven fields, then the final pass, whose
\* inputs.count() is not inside a try
_fill_all_textish(st, F) ==
  LET s == FillFields(st, F, ProfileKeys)
  IN  IF Fails(s, F)
      THEN Logged([Tick(s) EXCEPT !.raised = TRUE], Event("final", "count", "", 0, FALSE))
      ELSE FinalFrom(Logged(Tick(s), Event("final", "count", "", Len(Textual(s.texts, 1)), TRUE)),
                     F, Textual(s.texts, 1))

\* _candidate_apply_urls: the two Greenhouse addresses of a Greenhouse job,
\* then the stored URL, without empty or repeated entries
_candidate_apply_urls(id, url) ==
  (IF id[1] = "greenhouse" THEN <<"boards.greenhouse.io/embed", "boards.greenhouse.io/jobs">>
   ELSE <<>>)
  \o (IF url = NullUrl THEN <<>> ELSE <<url>>)

\* the navigation loop of apply_to over the candidates; loads[i] says whether
\* page.goto of the i-th candidate succeeds.  The result is the last address
\* loaded ("" for none) and found_form.
RECURSIVE Navigation(_, _, _, _, _)
Navigation(cands, loads, i, at, hasFile) ==
  IF i > Len(cands) THEN [at |-> at, found |-> FALSE]
  ELSE IF ~loads[i] THEN Navigation(cands, loads, i + 1, at, hasFile)
  ELSE IF cands[i] \in {"boards.greenhouse.io/embed", "boards.greenhouse.io/jobs"} \/ hasFile
  THEN [at |-> cands[i], found |-> TRUE]
  ELSE Navigation(cands, loads, i + 1, cands[i], hasFile)


(***************************************************************************)
(* State.                                                                  *)
(***************************************************************************)
VARIABLES
  schema,   \* how each table of the store was created
  jobs,     \* the rows of jobs
  apps,     \* the rows of applications
  files,    \* the document files on disk
  run,      \* the command in progress and the organisations it has yet to fetch
  last,     \* the last command that ended, and how
  env,      \* RESUME_FILE and COVER_FILE of the environment
  site,     \* the form the job's application pages serve
  dom,      \* the page of the browser
  ap,       \* apply_to: its stage and its locals
  trace,    \* the attempts apply_to has made on the page, in order
  faults    \* how many more calls on the page may raise

storeVars == <<schema, jobs, apps, files, run, last>>
applyVars == <<env, site, dom, ap, trace, faults>>
vars == <<storeVars, applyVars>>

Db == [schema |-> schema, jobs |-> jobs, apps |-> apps]

Idle == [cmd |-> "none", todo |-> <<>>, eu |-> FALSE, errs |-> <<>>]
Ended(cmd, res) == [cmd |-> cmd, res |-> res]

NoEnv == [RESUME_FILE |-> NoPath, COVER_FILE |-> NoPath]
ApIdle ==
  [pc |-> "idle", id |-> <<>>, resume |-> NoPath, cover |-> NoPath, found |-> FALSE,
   uploaded_resume |-> FALSE, uploaded_cover |-> FALSE, browser |-> "none"]
\* no apply has started
ApplyIdle ==
  /\ env = NoEnv
  /\ site = BlankDom
  /\ dom = BlankDom
  /\ ap = ApIdle
  /\ trace = <<>>
  /\ faults = 0

BoardList(board, orgs) == [i \in 1..Len(orgs) |-> <<board, orgs[i]>>]

\* fetch_jobs.py GH_ORGS, LEVER_ORGS: what the script fetches when run alone
GH_ORGS == GhOrgs
LEVER_ORGS == <<>>

Init ==
  /\ schema = [jobs |-> "none", apps |-> FALSE]
  /\ jobs = {}
  /\ apps = {}
  /\ files = {}
  /\ run = Idle
  /\ last = Ended("none", "ok")
  /\ ApplyIdle

\* cli.py initdb
InitDb ==
  /\ run = Idle
  /\ schema' = ensure_db(Db).schema
  /\ jobs' = ensure_db(Db).jobs
  /\ apps' = ensure_db(Db).apps
  /\ last' = Ended("initdb", "ok")
  /\ UNCHANGED <<files, run, applyVars>>

\* cli.py refresh with no board given: typer.Exit(code=1) after ensure_db
RefreshNoBoards ==
  /\ run = Idle
  /\ schema' = ensure_db(Db).schema
  /\ jobs' = ensure_db(Db).jobs
  /\ apps' = ensure_db(Db).apps
  /\ last' = Ended("refresh", "Exit1")
  /\ UNCHANGED <<files, run, applyVars>>

\* cli.py refresh: ensure_db, then fetch_and_store opens the store
\* (ensure_schema) and starts on the organisations
RefreshBegin ==
  /\ run = Idle
  /\ schema' = ensure_schema(ensure_db(Db).schema)
  /\ jobs' = ensure_db(Db).jobs
  /\ apps' = ensure_db(Db).apps
  /\ run' = [cmd |-> "refresh", eu |-> FALSE, errs |-> <<>>,
             todo |-> BoardList("greenhouse", GhOrgs) \o BoardList("lever", LeverOrgs)]
  /\ UNCHANGED <<files, last, applyVars>>

\* fetch_jobs.py run alone: fetch_and_store(GH_ORGS, LEVER_ORGS)
FetchBegin ==
  /\ run = Idle
  /\ schema' = ensure_schema(schema)
  /\ run' = [cmd |-> "fetch", eu |-> FALSE, errs |-> <<>>,
             todo |-> BoardList("greenhouse", GH_ORGS) \o BoardList("lever", LEVER_ORGS)]
  /\ UNCHANGED <<jobs, apps, files, last, applyVars>>

\* fetch_and_store: the next Greenhouse organisation.  run.errs is what was
\* printed; an exception leaving fetch_greenhouse would leave fetch_and_store
\* before its commit.
FetchGreenhouse ==
  /\ run.todo # <<>>
  /\ Head(run.todo)[1] = "greenhouse"
  /\ \E resp \in Responses :
       \E r \in {fetch_greenhouse(jobs, schema, Head(run.todo)[2], resp)} :
         IF r.raised
         THEN /\ run' = Idle
              /\ last' = Ended(run.cmd, "FetchError")
              /\ UNCHANGED jobs
         ELSE /\ jobs' = r.tbl
              /\ run' = [run EXCEPT !.todo = Tail(run.todo),
                                    !.errs = IF r.logged THEN Append(@, Head(run.todo)[2])
                                             ELSE @]
              /\ UNCHANGED last
  /\ UNCHANGED <<schema, apps, files, applyVars>>

\* fetch_and_store: the next Lever organisation, its US endpoint
FetchLeverUS ==
  /\ run.todo # <<>>
  /\ Head(run.todo)[1] = "lever"
  /\ ~run.eu
  /\ \E resp \in Responses :
       LET r == fetch_lever(jobs, schema, Head(run.todo)[2], resp)
       IN  /\ jobs' = r.tbl
           /\ run' = IF r.raised THEN [run EXCEPT !.eu = TRUE]
                     ELSE [run EXCEPT !.todo = Tail(run.todo)]
  /\ UNCHANGED <<schema, apps, files, last, applyVars>>

\* fetch_and_store: the EU endpoint of a Lever organisation whose US endpoint
\* failed
FetchLeverEU ==
  /\ run.todo # <<>>
  /\ Head(run.todo)[1] = "lever"
  /\ run.eu
  /\ \E resp \in Responses :
       \E r \in {fetch_lever(jobs, schema, Head(run.todo)[2], resp)} :
         /\ jobs' = r.tbl
         /\ run' = [run EXCEPT !.todo = Tail(run.todo), !.eu = FALSE,
                               !.errs = IF r.raised THEN Append(@, Head(run.todo)[2])
                                        ELSE @]
  /\ UNCHANGED <<schema, apps, files, last, applyVars>>

\* fetch_jobs.py run alone: conn.commit() ends the command
FetchEnd ==
  /\ run.cmd = "fetch"
  /\ run.todo = <<>>
  /\ run' = Idle
  /\ last' = Ended("fetch", "ok")
  /\ UNCHANGED <<schema, jobs, apps, files, applyVars>>

\* cli.py refresh: after the commit of fetch_and_store, score_all
RefreshEnd ==
  /\ run.cmd = "refresh"
  /\ run.todo = <<>>
  /\ schema' = ensure_score_column(schema)
  /\ jobs' = score_all(jobs)
  /\ run' = Idle
  /\ last' = Ended("refresh", IF ScoreRaises(jobs) THEN "TypeError" ELSE "ok")
  /\ UNCHANGED <<apps, files, applyVars>>

\* score_jobs.py run alone: without a jobs table ALTER TABLE fails
Score ==
  /\ run = Idle
  /\ IF schema.jobs = "none"
     THEN /\ last' = Ended("score", "OperationalError")
          /\ UNCHANGED <<schema, jobs>>
     ELSE /\ schema' = ensure_score_column(schema)
          /\ jobs' = score_all(jobs)
          /\ last' = Ended("score", IF ScoreRaises(jobs) THEN "TypeError" ELSE "ok")
  /\ UNCHANGED <<apps, files, run, applyVars>>

\* cli.py top: reads the score column, which a jobs table created by
\* fetch_jobs.py alone does not have
Top ==
  /\ run = Idle
  /\ schema' = ensure_db(Db).schema
  /\ jobs' = ensure_db(Db).jobs
  /\ apps' = ensure_db(Db).apps
  /\ last' = Ended("top", IF schema'.jobs = "fetch" THEN "OperationalError" ELSE "ok")
  /\ UNCHANGED <<files, run, applyVars>>

\* cli.py generate, after ensure_db
Generate ==
  /\ run = Idle
  /\ schema' = ensure_tables(ensure_db(Db).schema)
  /\ jobs' = ensure_db(Db).jobs
  /\ \E id \in JobIds, outdir \in Dirs, key \in BOOLEAN, llm \in {"ok", "error"} :
       LET g == generate(ensure_db(Db).jobs, ensure_db(Db).apps, files, id, outdir, key, llm)
       IN  /\ apps' = g.apps
           /\ files' = g.files
           /\ last' = Ended("generate", g.res)
  /\ UNCHANGED <<run, applyVars>>

\* cli.py convert
Convert ==
  /\ run = Idle
  /\ schema' = ensure_db(Db).schema
  /\ jobs' = ensure_db(Db).jobs
  /\ \E id \in JobIds, docs_dir \in Dirs, pretty1, pretty2 \in PrettyOutcomes :
       LET md == _resolve_md_paths(ensure_db(Db).apps, files, id, docs_dir)
           p1 == ensure_pdf_from_md(files, md.resume, pretty1)
           p2 == ensure_pdf_from_md(p1.files, md.cover, pretty2)
       IN  IF md.res # "ok"
           THEN /\ last' = Ended("convert", md.res)
                /\ apps' = ensure_db(Db).apps
                /\ UNCHANGED files
           ELSE IF p1.res # "ok" \/ p2.res # "ok"
           THEN /\ last' = Ended("convert", IF p1.res # "ok" THEN p1.res ELSE p2.res)
                /\ apps' = ensure_db(Db).apps
                /\ files' = p2.files
           ELSE /\ files' = p2.files
                /\ apps' = update_db(ensure_db(Db).apps, id, p1.pdf, p2.pdf)
                /\ last' = Ended("convert", "ok")
  /\ UNCHANGED <<run, applyVars>>

\* convert_and_export.py run alone: main, with --resume-md and --cover-md
\* naming the Markdown files of a job (there or not) and --job-id given or not
ConvertScript ==
  /\ run = Idle
  /\ schema.apps
  /\ \E id \in JobIds, given \in BOOLEAN, pretty1, pretty2 \in PrettyOutcomes :
       LET p1 == ensure_pdf_from_md(files, DocPath(id, "resume", "md", FALSE), pretty1)
           p2 == ensure_pdf_from_md(p1.files, DocPath(id, "cover", "md", FALSE), pretty2)
       IN  IF p1.res # "ok"
           THEN /\ last' = Ended("convertscript", p1.res)
                /\ UNCHANGED <<apps, files>>
           ELSE IF p2.res # "ok"
           THEN /\ last' = Ended("convertscript", p2.res)
                /\ files' = p1.files
                /\ UNCHANGED apps
           ELSE /\ files' = p2.files
                /\ apps' = IF given THEN update_db(apps, id, p1.pdf, p2.pdf) ELSE apps
                /\ last' = Ended("convertscript", "ok")
  /\ UNCHANGED <<schema, jobs, run, applyVars>>

Next ==
  \/ InitDb
  \/ RefreshNoBoards
  \/ RefreshBegin
  \/ FetchBegin
  \/ FetchGreenhouse
  \/ FetchLeverUS
  \/ FetchLeverEU
  \/ FetchEnd
  \/ RefreshEnd
  \/ Score
  \/ Top

Spec == Init /\ [][Next]_vars

(***************************************************************************)
(* The document commands, on a store a refresh has filled.                 *)
(***************************************************************************)
\* the jobs tables a refresh leaves: of each job no row, or a scored row
\* holding one of the well-formed payloads
RowFor(id, p) ==
  [id |-> id, source |-> id[1], company |-> id[2], url |-> NullUrl, raw |-> p,
   score |-> Some(0), status |-> "new"]
RefreshedTables ==
  {score_all({RowFor(id, pay[id]) : id \in ids}) :
     ids \in SUBSET JobIds, pay \in [JobIds -> {PayA, PayB}]}

InitDocs ==
  /\ schema = [jobs |-> "cli", apps |-> TRUE]
  /\ jobs \in RefreshedTables
  /\ apps = {}
  /\ files = {}
  /\ run = Idle
  /\ last = Ended("none", "ok")
  /\ ApplyIdle

NextDocs ==
  \/ InitDb
  \/ Generate
  \/ Convert
  \/ ConvertScript

SpecDocs == InitDocs /\ [][NextDocs]_vars


(***************************************************************************)
(* Scoring alone: score_jobs.py run on a store whose rows were just        *)
(* fetched (default score), for every text over the skill names.           *)
(***************************************************************************)
ScoreIds ==
  <<JobId("greenhouse", "stripe", 1), JobId("greenhouse", "stripe", 2),
    JobId("lever", "datadog", 1)>>
TextPayload(ws) ==
  [content |-> Str(ws), title |-> Empty, descriptionPlain |-> Str(ws),
   description |-> Empty, text |-> Empty]

InitScore ==
  /\ schema = [jobs |-> "cli", apps |-> TRUE]
  /\ \E ws \in SUBSET Skills :
       \E p3 \in {TextPayload(ws), PayB} :
         jobs = {RowFor(ScoreIds[1], TextPayload(ws)), RowFor(ScoreIds[2], TextPayload(ws)),
                 RowFor(ScoreIds[3], p3)}
  /\ apps = {}
  /\ files = {}
  /\ run = Idle
  /\ last = Ended("fetch", "ok")
  /\ ApplyIdle

NextScore == Score

SpecScore == InitScore /\ [][NextScore]_vars

(***************************************************************************)
(* cli.py apply: apply_to, stage by stage.                                 *)
(***************************************************************************)
\* cli.py apply: ensure_db, then apply_to up to the new page: the lookups
\* (RuntimeError without the job's row), the choice of the files to upload,
\* the browser's launch
ApplyStart ==
  /\ run = Idle
  /\ ap.pc = "idle"
  /\ schema' = ensure_db(Db).schema
  /\ jobs' = ensure_db(Db).jobs
  /\ apps' = ensure_db(Db).apps
  /\ \E id \in JobIds :
       LET job == get_job(jobs', id)
           app == _get_md_paths_from_db(apps', id)
       IN  IF ~job.found
           THEN /\ last' = Ended("apply", "JobNotFound")
                /\ UNCHANGED <<ap, trace, dom>>
           ELSE /\ ap' = [ApIdle EXCEPT
                            !.pc = "navigate", !.id = id, !.browser = "open",
                            !.resume = _pick_valid_upload(files, app[1], env.RESUME_FILE),
                            !.cover = _pick_valid_upload(files, app[2], env.COVER_FILE)]
                /\ trace' = <<>>
                /\ dom' = BlankDom
                /\ UNCHANGED last
  /\ UNCHANGED <<files, run, env, site, faults>>

\* apply_to: the loop over the candidate addresses
Navigate ==
  /\ ap.pc = "navigate"
  /\ LET cands == _candidate_apply_urls(ap.id, get_job(jobs, ap.id).row.url)
     IN  \E loads \in [1..Len(cands) -> BOOLEAN] :
           LET nav == Navigation(cands, loads, 1, "", site.inputs # <<>>)
           IN  /\ dom' = IF nav.at = "" THEN BlankDom ELSE site
               /\ ap' = [ap EXCEPT !.pc = "upload", !.found = nav.found]
  /\ UNCHANGED <<storeVars, env, site, trace, faults>>

\* apply_to: _upload_best_effort; an exception that leaves it leaves
\* apply_to, and the browser goes with the playwright context
Upload ==
  /\ ap.pc = "upload"
  /\ \E F \in FaultSets(faults) :
       \E u \in {_upload_best_effort(Started(dom, trace), F, ap.resume, ap.cover)} :
           /\ dom' = DomOf(u.st)
           /\ trace' = u.st.log
           /\ faults' = faults - Cardinality(F)
           /\ IF u.st.raised
              THEN /\ ap' = [ap EXCEPT !.pc = "done", !.browser = "closed"]
                   /\ last' = Ended("apply", "DomError")
              ELSE /\ ap' = [ap EXCEPT !.pc = "fill", !.uploaded_resume = u.resume,
                                       !.uploaded_cover = u.cover]
                   /\ UNCHANGED last
  /\ UNCHANGED <<schema, jobs, apps, files, run, env, site>>

\* apply_to: _fill_all_textish(scope, PROFILE)
Fill ==
  /\ ap.pc = "fill"
  /\ \E F \in FaultSets(faults) :
       \E f \in {_fill_all_textish(Started(dom, trace), F)} :
           /\ dom' = DomOf(f)
           /\ trace' = f.log
           /\ faults' = faults - Cardinality(F)
           /\ IF f.raised
              THEN /\ ap' = [ap EXCEPT !.pc = "done", !.browser = "closed"]
                   /\ last' = Ended("apply", "DomError")
              ELSE /\ ap' = [ap EXCEPT !.pc = "pause"]
                   /\ UNCHANGED last
  /\ UNCHANGED <<schema, jobs, apps, files, run, env, site>>

\* apply_to: page.wait_for_timeout(REVIEW_SECONDS * 1000) ends, by expiry or
\* by the page being closed (TargetClosedError, caught)
Pause ==
  /\ ap.pc = "pause"
  /\ \E how \in {"expired", "closed"} :
       ap' = [ap EXCEPT !.pc = "close", !.browser = IF how = "closed" THEN "gone" ELSE @]
  /\ UNCHANGED <<storeVars, env, site, dom, trace, faults>>

\* apply_to: finally browser.close(), whatever it raises caught
Close ==
  /\ ap.pc = "close"
  /\ ap' = [ap EXCEPT !.pc = "done", !.browser = "closed"]
  /\ last' = Ended("apply", "ok")
  /\ UNCHANGED <<schema, jobs, apps, files, run, env, site, dom, trace, faults>>

NextApply ==
  \/ ApplyStart
  \/ Navigate
  \/ Upload
  \/ Fill
  \/ Pause
  \/ Close

\* the stores an apply may find: one job fetched and scored, its documents
\* written by generate (Markdown) or turned into PDFs by convert, of which
\* one may have been deleted since
ApplyId == JobId("greenhouse", "stripe", 1)
OtherId == JobId("lever", "datadog", 1)
MdFiles(id) == write_files({}, id).files
PdfFiles(id) ==
  ensure_pdf_from_md(ensure_pdf_from_md(MdFiles(id), DocPath(id, "resume", "md", FALSE),
                                        "none").files,
                     DocPath(id, "cover", "md", FALSE), "none").files
Generated(id) == generate_for({RowFor(id, PayA)}, {}, {}, id, "ok").apps
Converted(id) ==
  update_db(Generated(id), id, DocPath(id, "resume", "pdf", TRUE),
            DocPath(id, "cover", "pdf", TRUE))
ApplyStores ==
  {[apps |-> Generated(ApplyId), files |-> MdFiles(ApplyId)],
   [apps |-> Converted(ApplyId), files |-> MdFiles(ApplyId) \cup PdfFiles(ApplyId)]}
  \cup {[apps |-> Converted(ApplyId),
         files |-> (MdFiles(ApplyId) \cup PdfFiles(ApplyId))
                     \ {FileOf(DocPath(ApplyId, k, "pdf", TRUE))}] : k \in Kinds}

\* forms of up to MaxFileInputs file inputs, the last of which may wait
\* behind an "Upload" button
UploadSites ==
  {[inputs |-> is, hidden |-> <<>>, button |-> {}, texts |-> <<TxFirst>>] :
     is \in SeqsUpTo(FileKinds, MaxFileInputs)}
  \cup {[inputs |-> is, hidden |-> <<KNamedResume>>, button |-> {"upload"},
         texts |-> <<TxFirst>>] :
          is \in SeqsUpTo(FileKinds, MaxFileInputs - 1)}

InitApply ==
  /\ schema = [jobs |-> "cli", apps |-> TRUE]
  /\ jobs = score_all({[RowFor(ApplyId, PayA) EXCEPT !.url = "u1"]})
  /\ \E s \in ApplyStores : apps = s.apps /\ files = s.files
  /\ env = NoEnv
  /\ run = Idle
  /\ last = Ended("none", "ok")
  /\ site \in UploadSites
  /\ dom = BlankDom
  /\ ap = ApIdle
  /\ trace = <<>>
  /\ faults = MaxFaults

SpecApply == InitApply /\ [][NextApply]_vars

\* forms without file inputs, for every choice of text inputs
FillSites ==
  {[inputs |-> <<>>, hidden |-> <<>>, button |-> {}, texts |-> ts] :
     ts \in SeqsUpTo(TextKinds, MaxTexts)}

InitFill ==
  /\ schema = [jobs |-> "cli", apps |-> TRUE]
  /\ jobs = score_all({[RowFor(OtherId, PayB) EXCEPT !.url = "u1"]})
  /\ apps = {}
  /\ files = {}
  /\ env = NoEnv
  /\ run = Idle
  /\ last = Ended("none", "ok")
  /\ site \in FillSites
  /\ dom = BlankDom
  /\ ap = ApIdle
  /\ trace = <<>>
  /\ faults = MaxFaults

SpecFill == InitFill /\ [][NextApply]_vars

\* apply with RESUME_FILE and COVER_FILE unset or naming a .docx that is
\* there, a .md that is there or a .pdf that is not, over the stores above
\* and a store without applications row, on forms of at most one file input
EnvFiles ==
  {NoPath, DocPath(OtherId, "resume", "docx", FALSE),
   DocPath(OtherId, "resume", "md", FALSE), DocPath(OtherId, "cover", "pdf", FALSE)}
InitPick ==
  /\ schema = [jobs |-> "cli", apps |-> TRUE]
  /\ jobs = score_all({[RowFor(ApplyId, PayA) EXCEPT !.url = "u1"]})
  /\ \E s \in ApplyStores \cup {[apps |-> {}, files |-> {}]} :
       /\ apps = s.apps
       /\ files = s.files \cup {FileOf(DocPath(OtherId, "resume", "docx", FALSE)),
                                FileOf(DocPath(OtherId, "resume", "md", FALSE))}
  /\ env \in [RESUME_FILE : EnvFiles, COVER_FILE : EnvFiles]
  /\ run = Idle
  /\ last = Ended("none", "ok")
  /\ site \in {u \in UploadSites : Len(u.inputs) <= 1 /\ u.hidden = <<>>}
  /\ dom = BlankDom
  /\ ap = ApIdle
  /\ trace = <<>>
  /\ faults = 0

SpecPick == InitPick /\ [][NextApply]_vars

\* the document commands on a store as generate left it or without an
\* applications row, the job's Markdown files being wherever the user keeps
\* them: any of them in either folder
InitResolve ==
  /\ schema = [jobs |-> "cli", apps |-> TRUE]
  /\ jobs = score_all({RowFor(ApplyId, PayA)})
  /\ apps \in {{}, Generated(ApplyId)}
  /\ files \in SUBSET {FileOf(p) : p \in {_default_md_paths(ApplyId, d)[k] :
                                             d \in Dirs, k \in 1..2}}
  /\ run = Idle
  /\ last = Ended("none", "ok")
  /\ ApplyIdle

SpecResolve == InitResolve /\ [][NextDocs]_vars

\* the commands that write jobs, on a store that was refreshed and holds the
\* documents generate made for each of its jobs
InitRefetch ==
  /\ schema = [jobs |-> "cli", apps |-> TRUE]
  /\ jobs \in RefreshedTables \ {{}}
  /\ apps = UNION {Generated(r.id) : r \in jobs}
  /\ files = UNION {MdFiles(r.id) : r \in jobs}
  /\ run = Idle
  /\ last = Ended("none", "ok")
  /\ ApplyIdle

SpecRefetch == InitRefetch /\ [][Next]_vars

(***************************************************************************)
(* Claims.                                                                 *)
(***************************************************************************)

\* C1: after any sequence of upserts (within one refresh or across refreshes)
\* jobs holds at most one row per job identifier: an upsert of an identifier
\* already present updates that row in place.
C1_OneRowPerJobId ==
  \A r1, r2 \in jobs : r1.id = r2.id => r1 = r2

\* C1 witness: a row was updated in place after it had been scored (it still
\* carries the score of the payload it held before).
C1_UpdatedInPlace ==
  \E r \in jobs : r.score # Null /\ r.score # Some(0) /\ r.score # Some(ScoreOf(r))

\* C2, as claimed: in every reachable state no two rows of jobs carry the same
\* URL.  It fails on a jobs table created by fetch_jobs.py ensure_schema.
C2_UrlsUnique ==
  \A r1, r2 \in jobs : (r1.url # NullUrl /\ r1.url = r2.url) => r1 = r2

\* C3: after any sequence of generate and convert commands applications holds
\* at most one row per job identifier.
C3_OneRowPerApplication ==
  \A a1, a2 \in apps : a1.job_id = a2.job_id => a1 = a2

\* C3 witness: a job was generated, converted and generated again (its row
\* names the Markdown files while its PDFs exist), beside another job's row.
C3_RowReplacedTwice ==
  /\ Cardinality(apps) = 2
  /\ \E a \in apps : a.resume_path.ext = "md" /\ Exists(files, [a.resume_path EXCEPT !.ext = "pdf"])
  /\ \E a \in apps : a.resume_path.ext = "pdf"

\* C4: skill_score lies in [0,100] (0..1000 tenths) for every text, so every
\* scored row of jobs has 0 <= score <= 100.
C4_ScoreInRange ==
  \A r \in jobs : r.score = Null \/ (r.score[1] >= 0 /\ r.score[1] <= 1000)

\* C4 witness: score_all has run on a text that hits every skill (score 100)
\* and on one that hits some but not all.
C4_FullAndPartialScores ==
  /\ last = Ended("score", "ok")
  /\ \E r \in jobs : r.score = Some(1000)
  /\ \E r \in jobs : r.score # Null /\ r.score[1] > 0 /\ r.score[1] < 1000

\* C5: scoring is deterministic: after score_all two rows with the same source
\* and the same payload carry the same score, and score_all run again on the
\* unchanged table changes no row.
C5_ScoreDeterministic ==
  /\ [](last = Ended("score", "ok") =>
          \A r1, r2 \in jobs :
             (r1.source = r2.source /\ r1.raw = r2.raw) => r1.score = r2.score)
  /\ [][(last = Ended("score", "ok") /\ last' = Ended("score", "ok")) => jobs' = jobs]_vars

\* C5 witness: score_all has scored two rows of one source and one payload,
\* and a third row of another source with that payload.
C5_TwinsScored ==
  /\ last = Ended("score", "ok")
  /\ \E r1, r2, r3 \in jobs :
       /\ r1.id # r2.id /\ r1.source = r2.source /\ r1.raw = r2.raw
       /\ r3.source # r1.source /\ r3.raw = r1.raw
       /\ r1.score # Some(0)

\* C6: ensure_db (initdb) on a store whose tables exist leaves the schema and
\* every row of jobs and applications as they were.
C6_InitDbIdempotent ==
  [][(last'.cmd = "initdb" /\ schema.jobs # "none" /\ schema.apps)
       => (schema' = schema /\ jobs' = jobs /\ apps' = apps)]_vars

\* C6 witness: initdb has run on a store holding job rows and application rows.
C6_InitDbOnFilledStore ==
  last.cmd = "initdb" /\ jobs # {} /\ apps # {}

\* C10, as claimed: a command ends normally (or by the dispatcher's own exit)
\* unless a required lookup is missing: job not found, or file not found.
C10_OnlyMissingLookupsPropagate ==
  last.res \in {"ok", "Exit1", "JobNotFound", "FileNotFound"}

UploadStrats == {"known", "named", "positional"}
UploadRank(e) ==
  CASE e.strat = "known" -> 1
    [] e.strat = "click" -> 2
    [] e.strat = "scan" -> 3
    [] e.strat = "named" -> 4
    [] e.strat = "positional" -> 5
    [] OTHER -> 6

\* C7: per document _upload_best_effort goes known selectors, then name/id
\* scan, then positional fallback, the reveal clicks lying after every
\* known-selector attempt and before the scan; an attempt for a document is
\* made only after every earlier attempt for that document failed; no attempt
\* is made for a document whose path is absent.
C7_UploadStrategyOrder ==
  /\ \A i, j \in 1..Len(trace) :
       i < j =>
         /\ UploadRank(trace[i]) <= UploadRank(trace[j])
         /\ (trace[j].strat \in UploadStrats /\ trace[i].strat \in UploadStrats
             /\ trace[i].what = trace[j].what)
              => (~trace[i].ok
                  /\ (trace[j].strat # "known" => trace[i].strat # trace[j].strat))
  /\ \A j \in 1..Len(trace) :
       /\ (trace[j].strat \in UploadStrats /\ trace[j].what = "resume") => ap.resume # NoPath
       /\ (trace[j].strat \in UploadStrats /\ trace[j].what = "cover") => ap.cover # NoPath
       /\ trace[j].strat \in {"named", "positional"}
            => \E i \in 1..(j - 1) : trace[i].strat = "scan"

\* C7 witness: one document went by a known selector; the other found no
\* known selector, the clicks followed, its name/id attempt failed and the
\* positional fallback uploaded it.
C7_AllStrategiesTried ==
  /\ ap.pc = "fill"
  /\ \E a, b, c, d, e \in 1..Len(trace) :
       /\ a < b /\ b < c /\ c < d /\ d < e
       /\ trace[a].strat = "known" /\ trace[a].ok
       /\ trace[b].strat = "click"
       /\ trace[c].strat = "scan"
       /\ trace[d].strat = "named" /\ ~trace[d].ok /\ trace[d].what # trace[a].what
       /\ trace[e].strat = "positional" /\ trace[e].ok /\ trace[e].what = trace[d].what

FieldStrats == {"label", "css"}
\* the attempts of _fill_field for key k among the first n entries of the
\* log have finished: one succeeded, or every label pattern and every CSS
\* fallback was tried
FieldDone(k, n) ==
  \/ \E i \in 1..n : trace[i].strat \in FieldStrats /\ trace[i].what = k /\ trace[i].ok
  \/ /\ \A q \in 1..Len(LABEL_PATTERNS(k)) :
          \E i \in 1..n : trace[i].strat = "label" /\ trace[i].what = k
                          /\ trace[i].sel = LABEL_PATTERNS(k)[q]
     /\ \A q \in 1..Len(CSS_FALLBACKS(k)) :
          \E i \in 1..n : trace[i].strat = "css" /\ trace[i].what = k
                          /\ trace[i].sel = CSS_FALLBACKS(k)[q]

\* C8: for each profile field the label patterns are tried before the CSS
\* fallbacks, a CSS fallback only after every label pattern failed, and
\* nothing more once an attempt succeeded; the final pass starts only after
\* the attempts for all eleven fields have finished.
C8_LabelThenCssThenFinal ==
  /\ \A i, j \in 1..Len(trace) :
       (i < j /\ trace[i].strat \in FieldStrats /\ trace[j].strat \in FieldStrats
        /\ trace[i].what = trace[j].what)
         => /\ ~trace[i].ok
            /\ trace[i].strat = "css" => trace[j].strat = "css"
  /\ \A j \in 1..Len(trace) :
       trace[j].strat = "final"
         => /\ \A k \in 1..Len(ProfileKeys) : FieldDone(ProfileKeys[k], j - 1)
            /\ \A i \in j..Len(trace) : trace[i].strat = "final"

\* C8 witness: a field whose label attempt failed on its input was filled by
\* a CSS fallback (the label of another field having succeeded or not), and
\* the final pass followed and filled an input.
C8_AllFillStrategiesUsed ==
  /\ ap.pc = "pause"
  /\ \E a, b, d \in 1..Len(trace) :
       /\ a < b
       /\ trace[a].strat = "label" /\ ~trace[a].ok /\ trace[a].at > 0
       /\ trace[b].strat = "css" /\ trace[b].ok /\ trace[b].what = trace[a].what
       /\ trace[d].strat = "final" /\ trace[d].ok /\ trace[d].at > 0

\* C9, as claimed: no failure of a call on the page leaves _upload_best_effort
\* or _fill_all_textish: apply never ends by such an exception.  It fails
\* when a call of _scan_file_inputs raises.
C9_NoDomFailurePropagates ==
  last # Ended("apply", "DomError")


StageRank(pc) ==
  CASE pc = "idle" -> 0
    [] pc = "navigate" -> 1
    [] pc = "upload" -> 2
    [] pc = "fill" -> 3
    [] pc = "pause" -> 4
    [] pc = "close" -> 5
    [] OTHER -> 6

\* C12, as claimed: within one apply_to the stages follow one another (lookup,
\* navigation, uploads, text filling, review pause, close), and the browser
\* is closed only by the step that follows the ended pause.  The second part
\* fails when an exception leaves _upload_best_effort or _fill_all_textish:
\* the browser goes down with the playwright context and no pause was held.
C12_StagesInOrderCloseAfterPause ==
  [][/\ ap'.pc # ap.pc => (StageRank(ap'.pc) = StageRank(ap.pc) + 1 \/ ap'.pc = "done")
     /\ (ap'.browser = "closed" /\ ap.browser # "closed") => ap.pc = "close"]_vars

\* C13, as claimed: the store is the only state an invocation leaves for a
\* later one: with the store as it is, convert resolves its sources and apply
\* picks its uploads just as they would had no earlier invocation written
\* anything outside the store (no document files on disk).  It fails: the
\* files written by generate and convert are read by convert and apply.
C13_OutcomeFromStoreAlone ==
  \A id \in JobIds :
    /\ \A d \in Dirs :
         _resolve_md_paths(apps, files, id, d).res = _resolve_md_paths(apps, {}, id, d).res
    /\ \A k \in {1, 2} :
         _pick_valid_upload(files, _get_md_paths_from_db(apps, id)[k], NoPath)
           = _pick_valid_upload({}, _get_md_paths_from_db(apps, id)[k], NoPath)

\* C14: ensure_pdf_from_md, whatever the preferred renderer does (works, is
\* missing, returns False, raises): for a source that exists it returns the
\* absolute path of the PDF beside the source, and that PDF exists; for a
\* source that does not exist it raises FileNotFoundError and writes nothing.
C14_PdfFromAnySource ==
  \A id \in JobIds, kind \in Kinds, pretty \in PrettyOutcomes :
    LET md == DocPath(id, kind, "md", FALSE)
        r == ensure_pdf_from_md(files, md, pretty)
    IN  IF Exists(files, md)
        THEN /\ r.res = "ok"
             /\ r.pdf = DocPath(id, kind, "pdf", TRUE)
             /\ Exists(r.files, r.pdf)
             /\ files \subseteq r.files
        ELSE r.res = "FileNotFound" /\ r.files = files

\* C14 witness: the script has converted the documents of one job and was
\* then run on sources that do not exist.
C14_ConvertedAndMissing ==
  /\ last = Ended("convertscript", "FileNotFound")
  /\ \E f \in files : f.ext = "pdf"

\* C15: when refresh has completed successfully every row of jobs, fetched
\* in this refresh or left from an earlier one, carries skill_score of the
\* text of its current payload and source.
C15_RefreshScoresCurrentPayload ==
  (last = Ended("refresh", "ok") /\ run = Idle)
    => \A r \in jobs : r.score = Some(ScoreOf(r))

\* C15 witness: a refresh has completed on two rows whose payloads score
\* differently, neither of them zero.
C15_RefreshedTwoRows ==
  /\ last = Ended("refresh", "ok")
  /\ run = Idle
  /\ \E r1, r2 \in jobs :
       /\ r1.score # r2.score
       /\ r1.score # Some(0) /\ r2.score # Some(0)
       /\ r1.raw # r2.raw

\* C16: when convert completes for a job identifier, the applications row
\* of that job holds in resume_path and cover_path the absolute paths of the
\* job's two PDFs, both files exist, the rows of the other jobs are as they
\* were, and _pick_valid_upload of a following apply picks these PDFs.
C16_ConvertRecordsPdfs ==
  [][(last' = Ended("convert", "ok") /\ (apps' # apps \/ files' # files \/ last' # last))
       => \E id \in JobIds :
            /\ \E r \in apps' :
                 /\ r.job_id = id
                 /\ \E d \in Dirs :
                      r.resume_path = [DocPath(id, "resume", "pdf", TRUE) EXCEPT !.dir = d]
                 /\ \E d \in Dirs :
                      r.cover_path = [DocPath(id, "cover", "pdf", TRUE) EXCEPT !.dir = d]
                 /\ Exists(files', r.resume_path) /\ Exists(files', r.cover_path)
                 /\ _pick_valid_upload(files', r.resume_path, NoPath) = r.resume_path
                 /\ _pick_valid_upload(files', r.cover_path, NoPath) = r.cover_path
            /\ \A r \in apps : r.job_id # id => r \in apps'
            /\ Cardinality({r \in apps' : r.job_id = id}) = 1]_vars

\* C16 witness: convert has completed on a job whose row generate had
\* written with the Markdown paths; the row now names the PDFs.
C16_GeneratedRowNowPdf ==
  /\ last = Ended("convert", "ok")
  /\ \E r \in apps : /\ r.notes = "generated"
                     /\ r.resume_path.ext = "pdf" /\ r.cover_path.ext = "pdf"
                     /\ Exists(files, r.resume_path) /\ Exists(files, r.cover_path)

\* C17: once apply_to has chosen its files, each document's file is the
\* path stored in applications when that file exists and ends in .pdf,
\* .doc, .docx or .rtf, otherwise the path in RESUME_FILE/COVER_FILE under
\* the same test, otherwise none; and every set_input_files that apply_to
\* attempts is for a document whose file exists with one of these endings.
C17_UploadsOnlyValidFiles ==
  ap.pc # "idle" =>
    /\ \A k \in 1..2 :
         LET db == _get_md_paths_from_db(apps, ap.id)[k]
             ev == IF k = 1 THEN env.RESUME_FILE ELSE env.COVER_FILE
             got == IF k = 1 THEN ap.resume ELSE ap.cover
             good(p) == /\ p # NoPath
                        /\ FileOf(p) \in files
                        /\ p.ext \in {"pdf", "doc", "docx", "rtf"}
         IN  /\ good(db) => got = [db EXCEPT !.abs = TRUE]
             /\ (~good(db) /\ good(ev)) => got = [ev EXCEPT !.abs = TRUE]
             /\ (~good(db) /\ ~good(ev)) => got = NoPath
    /\ \A i \in 1..Len(trace) :
         (trace[i].strat \in {"known", "named", "positional"} /\ trace[i].at > 0)
           => LET p == IF trace[i].what = "resume" THEN ap.resume ELSE ap.cover
              IN  /\ p # NoPath
                  /\ FileOf(p) \in files
                  /\ p.ext \in {"pdf", "doc", "docx", "rtf"}

\* C17 witness: the row holds the .md paths generate left, both files are
\* there, RESUME_FILE names a .docx that is there and COVER_FILE a .md that
\* is there: the resume from the environment was given to an input and
\* there is no cover letter to upload.
C17_MdRowEnvResumeUploaded ==
  /\ ap.pc = "done"
  /\ \E r \in apps : /\ r.job_id = ap.id
                     /\ r.resume_path.ext = "md" /\ r.cover_path.ext = "md"
                     /\ Exists(files, r.resume_path) /\ Exists(files, r.cover_path)
  /\ env.COVER_FILE.ext = "md" /\ Exists(files, env.COVER_FILE)
  /\ ap.resume = DocPath(OtherId, "resume", "docx", TRUE)
  /\ ap.cover = NoPath
  /\ ap.uploaded_resume /\ ~ap.uploaded_cover
  /\ \E i \in 1..Len(dom.inputs) : dom.inputs[i].got = <<"resume">>

\* C18, as claimed: _resolve_md_paths chooses for the resume and for the
\* cover letter, each on its own, the saved path when that file exists and
\* ends in .md and the default path otherwise; it returns the two choices
\* when both exist, and raises FileNotFoundError otherwise.  It fails: the
\* saved cover path is tested only when the saved resume path is unusable.
C18_ResolveEachOnItsOwn ==
  \A id \in JobIds, d \in Dirs :
    LET db == _get_md_paths_from_db(apps, id)
        usable(p) == p # NoPath /\ FileOf(p) \in files /\ p.ext = "md"
        want == [k \in 1..2 |-> IF usable(db[k]) THEN db[k]
                                ELSE _default_md_paths(id, d)[k]]
        m == _resolve_md_paths(apps, files, id, d)
    IN  IF usable(want[1]) /\ usable(want[2])
        THEN m.res = "ok" /\ m.resume = want[1] /\ m.cover = want[2]
        ELSE m.res = "FileNotFound"

\* C19, as claimed: a generate that completes with the option outdir has
\* written the two Markdown files into the folder outdir names, and the
\* paths it recorded in applications lie in that folder.  It fails: the call
\* that passes outdir raises TypeError and the call that runs writes to
\* writer.py's OUTDIR.
C19_GenerateWritesToOutdir ==
  [][\A id \in JobIds, outdir \in Dirs :
       LET g == generate(ensure_db(Db).jobs, ensure_db(Db).apps, files, id, outdir,
                         TRUE, "ok")
       IN  (/\ last' = Ended("generate", "ok")
            /\ g.res = "ok"
            /\ apps' = g.apps
            /\ files' = g.files)
             => \E r \in apps' :
                  /\ r.job_id = id
                  /\ r.resume_path.dir = outdir /\ r.cover_path.dir = outdir
                  /\ Exists(files', r.resume_path) /\ Exists(files', r.cover_path)]_vars

\* C20, as claimed: once _upload_best_effort has run no file input has
\* received both documents: the positional fallback gives the resume only
\* to the first file input and the cover letter only to the second, and an
\* input that received one document is not given the other afterwards.  It
\* fails: no strategy looks at what an input has received already.
C20_NoInputGetsBothDocuments ==
  /\ \A i \in 1..Len(trace) :
       (trace[i].strat = "positional" /\ trace[i].at > 0)
         => trace[i].at = (IF trace[i].what = "resume" THEN 1 ELSE 2)
  /\ \A i \in 1..Len(dom.inputs) :
       ~(\E j, k \in 1..Len(dom.inputs[i].got) :
           dom.inputs[i].got[j] = "resume" /\ dom.inputs[i].got[k] = "cover")

\* C21: every input the final pass of _fill_all_textish writes to was empty
\* when the pass reached it: the page had it empty and neither the label
\* strategy, nor the CSS strategy, nor the final pass itself had written to
\* it; the input is one the pass's locator selects, it is written once, and
\* the value it holds afterwards is the profile value of the first cue, in
\* the order of the cues, that matches its placeholder/name/aria-label.
C21_FinalPassFillsOnlyEmpty ==
  \A e \in 1..Len(trace) :
    (trace[e].strat = "final" /\ trace[e].what # "count" /\ trace[e].ok)
      => LET i == trace[e].at
             x == site.texts[i]
             matching == {c \in 1..Len(Cues) : Cues[c] \in x.cues}
         IN  /\ x.value = ""
             /\ x.textual
             /\ \A d \in 1..Len(trace) :
                  ~(/\ d # e
                    /\ trace[d].strat \in {"label", "css", "final"}
                    /\ trace[d].what # "count"
                    /\ trace[d].at = i
                    /\ trace[d].ok)
             /\ matching # {}
             /\ \E c \in matching : /\ \A c2 \in matching : c <= c2
                                    /\ trace[e].what = Cues[c]
             /\ dom.texts[i].value = PROFILE(trace[e].what)

\* C21 witness: the final pass has written to one input and has passed over
\* another that matches a cue too and had its value from the page or from
\* the CSS strategy.
C21_OneFilledOneLeft ==
  /\ ap.pc \in {"pause", "close", "done"}
  /\ \E e \in 1..Len(trace) :
       /\ trace[e].strat = "final" /\ trace[e].what # "count" /\ trace[e].ok
       /\ \E j \in 1..Len(dom.texts) :
            /\ j # trace[e].at
            /\ dom.texts[j].textual
            /\ dom.texts[j].cues # {}
            /\ dom.texts[j].value # ""
            /\ \A d \in 1..Len(trace) : ~(/\ trace[d].strat = "final"
                                           /\ trace[d].what # "count"
                                           /\ trace[d].at = j)

\* C22: in every state, an upsert of a row whose identifier is in jobs
\* either raises and leaves jobs as it is, or leaves one row of that
\* identifier, with source, company, url and payload of the new row and
\* with score and status as they were, and every other row as it was; and
\* every step of a fetch leaves applications as it is and each row of jobs
\* in place with its score and status.
C22_UpsertFrame ==
  /\ [](\A j \in {a \in ApiJobs : a.ok},
            b \in 1..(Len(GhOrgs) + Len(LeverOrgs)) :
          LET bd == (BoardList("greenhouse", GhOrgs) \o BoardList("lever", LeverOrgs))[b]
              row == IF bd[1] = "greenhouse" THEN normalize_gh(j, bd[2])
                     ELSE normalize_lever(j, bd[2])
              u == upsert(jobs, schema, row)
          IN  (\E r \in jobs : r.id = row.id)
                => IF u.raised THEN u.tbl = jobs
                   ELSE /\ Cardinality(u.tbl) = Cardinality(jobs)
                        /\ \A r \in jobs :
                             IF r.id # row.id THEN r \in u.tbl
                             ELSE [id |-> r.id, source |-> row.source,
                                   company |-> row.company, url |-> row.url,
                                   raw |-> row.raw, score |-> r.score,
                                   status |-> r.status] \in u.tbl)
  /\ [][run.todo # <<>>
          => /\ apps' = apps
             /\ \A r \in jobs : \E r2 \in jobs' :
                  r2.id = r.id /\ r2.score = r.score /\ r2.status = r.status]_vars

\* C22 witness: in the course of a fetch over a store that holds documents,
\* a scored row has a new payload under its old score, beside another row.
C22_RefetchedBesideDocuments ==
  /\ run.cmd \in {"refresh", "fetch"}
  /\ apps # {}
  /\ \E r, o \in jobs :
       /\ o.id # r.id
       /\ r.score # Some(0) /\ r.score # Null /\ r.score # Some(ScoreOf(r))
       /\ \E a \in apps : a.job_id = r.id

\* C23, as claimed: once generate and then convert have run for a job, with
\* the Markdown files in place, every further convert for that job completes
\* and leaves the job's applications row as the first convert left it.
\* Stated on the store in which every job is in that state, so that the
\* step of any further convert is the step of such a job: the convert
\* completes and changes neither applications nor the files.  It fails for
\* a convert run with --docs-dir naming another folder than docs.
C23_ConvertRepeatable ==
  [][(/\ \A id \in JobIds : \E r \in apps :
            /\ r.job_id = id
            /\ r.notes = "generated"
            /\ r.resume_path = DocPath(id, "resume", "pdf", TRUE)
            /\ r.cover_path = DocPath(id, "cover", "pdf", TRUE)
            /\ \A k \in Kinds : /\ Exists(files, DocPath(id, k, "md", FALSE))
                                /\ Exists(files, DocPath(id, k, "pdf", TRUE))
      /\ last'.cmd = "convert")
       => /\ last'.res = "ok"
          /\ apps' = apps
          /\ files' = files]_vars

====
